---- MODULE Spec2Model ----
(***************************************************************************)
(* State-machine model of kinesis-writable.                                *)
(*                                                                         *)
(* The repository holds two generations of the sink (index.js):            *)
(*   - the "dispatch" sink  (recordsQueue / flush / dispatch, retry        *)
(*     configured through buffer.retry),                                   *)
(*   - the "buffered" sink  (_queue / _batch_size / _sendEntries /         *)
(*     _putRecords, retry configured through retryConfiguration).          *)
(* An older buffered sink resolves a failed call with _retryValidRecords,   *)
(* and pool.js puts several sinks behind one writable stream.              *)
(* The variable impl says which of them is loaded; each has its own        *)
(* state variables, named as in the source.                                *)
(*                                                                         *)
(* Events are recorded as a subscribed listener observes them.             *)
(***************************************************************************)
EXTENDS Integers, Sequences, FiniteSets, TLC

\* ------------------------------------------------------------------ bounds
\* number of write() calls explored
MaxWrites == 3
\* buffer.length the sinks are constructed with
BufLength == 3
\* buffer.timeout, in clock ticks
BufferTimeout == 2
\* largest configured number of retries explored
MaxRetries == 1
\* largest buffer.length another sink is constructed with
MaxOtherLength == 3
\* buffer.maxBatchSize the buffered sink is constructed with
MaxBatchSize == 5
\* largest msg.length written (every record is smaller than MaxBatchSize)
MaxRecordSize == 3
Sizes == {MaxRecordSize - 1, MaxRecordSize}
\* largest batch handed to _retryValidRecords
MaxResolverBatch == 3
\* largest number of record indexes one error message names
MaxMessageIndexes == 2
\* resubmissions explored for one original batch
MaxBonus == 2
\* largest number of streams a pool is constructed with
MaxStreams == 2
\* number of write() calls made on a pool
MaxPoolWrites == 2
\* streams of a pool where delivery in the long run is looked at
MaxFairStreams == 3

\* ------------------------------------------------------- program constants
\* defaultBuffer.retry.retries of the dispatch sink
DefaultBufferRetries == 2
\* default retryConfiguration.retries of the buffered sink
DefaultRetryConfigurationRetries == 0

VARIABLES
    impl,           \* which sink implementation is loaded
    written,        \* number of write() calls made so far
    retries,        \* configured number of retries (buffer.retry.retries / _retryConfiguration.retries)
    retryConfigured,\* whether the caller passed a retry policy
    last,           \* the handler that ran last, and what it did
    submitted,      \* ids of the records handed to a submission so far
    \* ---- dispatch sink
    recordsQueue,   \* this.recordsQueue
    timer,          \* this.timer: -1 = not pending, else ticks until it fires
    bufferLength,   \* this.buffer.length (the buffer object is shared, see NewSink)
    ops,            \* the pending retry operations created by dispatch, in call order
    \* ---- buffered sink
    queue,          \* this._queue
    batch_size,     \* this._batch_size
    queueWait,      \* whether the timeout this._queueWait refers to is still pending
    armed,          \* number of pending flush timeouts of this sink
    reqs,           \* the pending retry operations created by _putRecords, in call order
    streamName,     \* whether this._params.streamName is set
    writeOps,       \* the retry operations of _write that wait for their next attempt
    \* ---- pool
    flagged,        \* stream.primary of each stream, as the caller passed the streams
    primaryStream,  \* this.primaryStream (index into this.streams)
    currentStream,  \* this.currentStream (index into this.streams)
    failing,        \* stream.failing of each stream
    recordsToRetry, \* this.recordsToRetry
    sinkWrites      \* per stream, the chunks written to it that it has not answered

bvars == <<queue, batch_size, queueWait, armed, reqs>>
dvars == <<recordsQueue, timer, bufferLength, ops>>
cvars == <<streamName, writeOps>>
pvars == <<flagged, primaryStream, currentStream, failing, recordsToRetry, sinkWrites>>
vars == <<impl, written, retries, retryConfigured, last, submitted, dvars, bvars, cvars, pvars>>

Min(a, b) == IF a < b THEN a ELSE b

\* What a handler leaves in last: its name, the record written (id, prio), the
\* number of submissions it started, and the operation it finished, if any, with
\* the events emitted for it and the callback it was given.
NoFin == [batch |-> << >>, attempts |-> 0, errors |-> 0,
          errRecords |-> [kind |-> "none", Records |-> << >>], errAttempts |-> 0,
          cb |-> "none", result |-> << >>, recordEvents |-> << >>]
Did(op, id, prio, nsub) ==
    [op |-> op, id |-> id, prio |-> prio, nsub |-> nsub, fin |-> NoFin]
NoLast == Did("init", 0, FALSE, 0)

Ids(records) == {records[i].id : i \in 1..Len(records)}
Remove(seq, i) == SubSeq(seq, 1, i - 1) \o SubSeq(seq, i + 1, Len(seq))

\* no pool is constructed
NoPool ==
    /\ flagged = << >>
    /\ primaryStream = 0
    /\ currentStream = 0
    /\ failing = << >>
    /\ recordsToRetry = << >>
    /\ sinkWrites = << >>

\* ------------------------------------------------------------ retry library
\* faulty variant: the timeouts are counted across operations, one being
\* used up elsewhere
OperationRetryShared(err, attempts, maxRetries) == err /\ attempts < maxRetries

\* retry.operation(opts): opts.retries timeouts are left after construction;
\* operation.retry(err) is false without an error or when no timeout is left,
\* otherwise it schedules the next attempt and is true.
OperationRetry(err, attempts, maxRetries) == err /\ attempts <= maxRetries

\* ------------------------------------------------------------ dispatch sink
\* A record as dispatched (the age is bookkeeping of the queue only).
Strip(q) == [i \in 1..Len(q) |-> [id |-> q[i].id]]

\* faulty variant: the dispatched head stays in the queue
KeepQueue(q, n) == q

\* Array.prototype.splice(0, n): the removed head and what stays.
SpliceHead(q, n) == SubSeq(q, 1, Min(n, Len(q)))
SpliceRest(q, n) == SubSeq(q, Min(n, Len(q)) + 1, Len(q))

\* faulty variant: flush hands the whole queue to dispatch
FlushBatchAll(q, n) == q

\* flush hands recordsQueue.splice(0, buffer.length) to dispatch
FlushBatch(q, n) == SpliceHead(q, n)

\* A pending operation of dispatch: its batch, buffer.length when it was
\* dispatched, the attempt it is in, whether putRecords is running or the
\* retry delay, and the 'error' events emitted for it so far.
NewOp(records, limit) ==
    [batch |-> records, limit |-> limit, attempts |-> 1, phase |-> "inflight",
     errors |-> 0]

\* dispatch(records): nothing for an empty batch, else a retry operation whose
\* first attempt calls putRecords at once.
Dispatch(o, records, limit) ==
    IF Len(records) = 0 THEN o ELSE Append(o, NewOp(records, limit))

\* flush(): what it does to the queue, the operations and the submitted ids
DoFlush(q0) ==
    /\ recordsQueue' = SpliceRest(q0, bufferLength)
    /\ ops' = Dispatch(ops, Strip(FlushBatch(q0, bufferLength)), bufferLength)
    /\ submitted' = submitted \cup Ids(FlushBatch(q0, bufferLength))

\* faulty variant: the length check is off by one
ShouldFlushAbove(q, n, hasPriority) == Len(q) > n \/ hasPriority

\* _write's flush decision
ShouldFlush(q, n, hasPriority) == Len(q) >= n \/ hasPriority

\* faulty variant: a priority chunk is pushed like any other
EnqueueBack(q, r, hasPriority) == Append(q, r)

\* _write: where the chunk goes in the queue
Enqueue(q, r, hasPriority) == IF hasPriority THEN <<r>> \o q ELSE Append(q, r)

\* faulty variant: a write that does not flush leaves the timer as it is
KeepTimerOnWrite(t) == t

\* faulty variant: the timer is cleared and not set again
NoRearmOnWrite(t) == -1

\* _write: the timer after a write that does not flush (cleared, then set
\* again with the full timeout)
RearmOnWrite(t) == BufferTimeout

Write(prio) ==
    /\ impl = "dispatch"
    /\ written < MaxWrites
    /\ LET r  == [id |-> written + 1, age |-> 0]
           q1 == Enqueue(recordsQueue, r, prio)
       IN /\ written' = written + 1
          /\ IF ShouldFlush(q1, bufferLength, prio)
             THEN /\ DoFlush(q1)
                  /\ timer' = -1
             ELSE /\ recordsQueue' = q1
                  /\ ops' = ops
                  /\ submitted' = submitted
                  /\ timer' = RearmOnWrite(timer)
          /\ last' = Did("write", written + 1, prio, Len(ops') - Len(ops))
    /\ UNCHANGED <<cvars, pvars, bvars, impl, retries, retryConfigured, bufferLength>>

\* every queued record is n ticks older
Older(q, n) == [i \in 1..Len(q) |-> [q[i] EXCEPT !.age = @ + n]]

\* The flush timer set by _write fires (flush.bind(this)): TimerFire takes a
\* timer that is due, TimerElapse lets the remaining delay of the pending timer
\* pass and then runs the same callback.
TimerCallback(q0) ==
    /\ DoFlush(q0)
    /\ timer' = -1
    /\ last' = Did("timer", 0, FALSE, Len(ops') - Len(ops))
    /\ UNCHANGED <<cvars, pvars, bvars, impl, written, retries, retryConfigured, bufferLength>>

TimerFire ==
    /\ impl = "dispatch"
    /\ timer = 0
    /\ TimerCallback(recordsQueue)

TimerElapse ==
    /\ impl = "dispatch"
    /\ timer >= 0
    /\ TimerCallback(Older(recordsQueue, timer))

\* flush() called by the owner of the sink
Flush ==
    /\ impl = "dispatch"
    /\ DoFlush(recordsQueue)
    /\ last' = Did("flush", 0, FALSE, Len(ops') - Len(ops))
    /\ UNCHANGED <<cvars, pvars, bvars, impl, written, retries, retryConfigured, bufferLength, timer>>

\* One clock tick while a timer is pending: a timer that is due fires before
\* time moves on.
Tick ==
    /\ impl = "dispatch"
    /\ timer > 0
    /\ timer' = timer - 1
    /\ recordsQueue' = Older(recordsQueue, 1)
    /\ last' = Did("tick", 0, FALSE, 0)
    /\ UNCHANGED <<cvars, pvars, bvars, impl, written, retries, retryConfigured, bufferLength,
                   ops, submitted>>

\* emitRecordError(err, records): one 'error' event, err.records = records
EmitRecordError(o) ==
    [NoFin EXCEPT !.batch = o.batch, !.attempts = o.attempts,
                  !.errors = o.errors + 1,
                  !.errRecords = [kind |-> "list", Records |-> o.batch]]

\* faulty variant: the callback forgets emitRecordError
FinishSilent(o, err) ==
    [NoFin EXCEPT !.batch = o.batch, !.attempts = o.attempts, !.errors = o.errors,
                  !.cb = IF err THEN "err" ELSE "ok"]

\* The callback dispatch gives putRecords, when operation.retry(err) is false:
\* the operation is over.
Finish(o, err) ==
    IF err
    THEN [EmitRecordError(o) EXCEPT !.cb = "err"]
    ELSE [NoFin EXCEPT !.batch = o.batch, !.attempts = o.attempts,
                       !.errors = o.errors, !.cb = "ok"]

\* putRecords answers attempt o.attempts of operation i
Response(i, err) ==
    /\ impl = "dispatch"
    /\ i \in 1..Len(ops)
    /\ ops[i].phase = "inflight"
    /\ IF OperationRetry(err, ops[i].attempts, retries)
       THEN /\ ops' = [ops EXCEPT ![i].phase = "backoff"]
            /\ last' = Did("response", 0, FALSE, 0)
       ELSE /\ ops' = Remove(ops, i)
            /\ last' = [Did("response", 0, FALSE, 0) EXCEPT !.fin = Finish(ops[i], err)]
    /\ UNCHANGED <<cvars, pvars, bvars, impl, written, retries, retryConfigured, bufferLength,
                   recordsQueue, timer, submitted>>

\* the retry library's delay is over: the next attempt calls putRecords
RetryFire(i) ==
    /\ impl = "dispatch"
    /\ i \in 1..Len(ops)
    /\ ops[i].phase = "backoff"
    /\ ops' = [ops EXCEPT ![i] = [@ EXCEPT !.phase = "inflight", !.attempts = @ + 1]]
    /\ last' = Did("retry", 0, FALSE, 0)
    /\ UNCHANGED <<cvars, pvars, bvars, impl, written, retries, retryConfigured, bufferLength,
                   recordsQueue, timer, submitted>>

\* Another sink is constructed with buffer: {length: n}: merge(defaultBuffer,
\* params.buffer) writes into the module-level defaultBuffer and returns it, so
\* this.buffer of every sink is that one object.
NewSink(n) ==
    /\ impl = "dispatch"
    /\ n # bufferLength
    /\ bufferLength' = n
    /\ last' = Did("newsink", n, FALSE, 0)
    /\ UNCHANGED <<cvars, pvars, bvars, impl, written, retries, retryConfigured, recordsQueue,
                   timer, ops, submitted>>

InitDispatch ==
    /\ impl = "dispatch"
    /\ written = 0
    /\ retryConfigured \in BOOLEAN
    /\ retries \in (IF retryConfigured THEN 0..MaxRetries ELSE {DefaultBufferRetries})
    /\ last = NoLast
    /\ submitted = {}
    /\ recordsQueue = << >>
    /\ timer = -1
    /\ bufferLength = BufLength
    /\ ops = << >>
    /\ queue = << >>
    /\ batch_size = 0
    /\ queueWait = FALSE
    /\ armed = 0
    /\ reqs = << >>
    /\ streamName = TRUE
    /\ writeOps = << >>
    /\ NoPool

NextDispatch ==
    \/ \E p \in BOOLEAN : Write(p)
    \/ TimerElapse
    \/ Flush
    \/ \E i \in 1..MaxWrites, e \in BOOLEAN : Response(i, e)
    \/ \E i \in 1..MaxWrites : RetryFire(i)

SpecDispatch == InitDispatch /\ [][NextDispatch]_vars

\* the same sink against the clock (the endpoint's answers do not touch the
\* queue or the timer and are left out)
NextTimed ==
    \/ \E p \in BOOLEAN : Write(p)
    \/ Tick
    \/ TimerFire
    \/ Flush

SpecTimed == InitDispatch /\ [][NextTimed]_vars

\* ------------------------------------------------------------ buffered sink
Codes == {"ok", "ProvisionedThroughputExceededException", "InternalFailure"}

SumSizes(q) ==
    LET F[i \in 0..Len(q)] == IF i = 0 THEN 0 ELSE F[i - 1] + q[i].size
    IN F[Len(q)]

\* The sink's fields a handler goes through, as one value.
Sink == [q |-> queue, bs |-> batch_size, wait |-> queueWait, armed |-> armed,
         reqs |-> reqs, sub |-> submitted]

\* clearTimeout(this._queueWait)
ClearTimeout(s) ==
    IF s.wait THEN [s EXCEPT !.wait = FALSE, !.armed = @ - 1] ELSE s

\* this._queueWait = this._queueSendEntries()
QueueSendEntries(s) == [s EXCEPT !.wait = TRUE, !.armed = @ + 1]

\* A pending operation of _putRecords: its batch, the attempt it is in,
\* whether kinesis.putRecords is running or the retry delay, and the events
\* emitted for it so far.
NewReq(records) ==
    [batch |-> records, attempts |-> 1, phase |-> "inflight", errors |-> 0,
     recordEvents |-> << >>]

\* _putRecords(requestContent): a retry operation whose first attempt calls
\* kinesis.putRecords at once
PutRecords(s, records) ==
    [s EXCEPT !.reqs = Append(@, NewReq(records)), !.sub = @ \cup Ids(records)]

\* faulty variant: _sendEntries arms a flush timeout whatever it finds
SendEntriesRearm(s) ==
    LET t == [s EXCEPT !.q = << >>, !.bs = 0]
    IN QueueSendEntries(IF Len(s.q) = 0 THEN t ELSE PutRecords(t, s.q))

\* _sendEntries
SendEntries(s) ==
    LET t == [s EXCEPT !.q = << >>, !.bs = 0]
    IN IF Len(s.q) = 0 THEN QueueSendEntries(t) ELSE PutRecords(t, s.q)

\* _write, buffer branch: the size check that precedes the push
ExceedsBatchSize(bs) == bs > MaxBatchSize

SizeCheck(s, size) ==
    LET t == [s EXCEPT !.bs = @ + size]
    IN IF ExceedsBatchSize(t.bs) THEN SendEntries(ClearTimeout(t)) ELSE t

\* _write, buffer branch: the push and the length / priority check
ShouldSendEntries(q, prio) == Len(q) >= BufLength \/ prio

PushCheck(s, r, prio) ==
    LET t == [s EXCEPT !.q = Append(@, r)]
    IN IF ShouldSendEntries(t.q, prio) THEN SendEntries(ClearTimeout(t)) ELSE t

SetSink(s) ==
    /\ queue' = s.q
    /\ batch_size' = s.bs
    /\ queueWait' = s.wait
    /\ armed' = s.armed
    /\ reqs' = s.reqs
    /\ submitted' = s.sub

BufWrite(size, prio) ==
    /\ impl = "buffered"
    /\ streamName
    /\ written < MaxWrites
    /\ LET r == [id |-> written + 1, size |-> size]
           s == PushCheck(SizeCheck(Sink, size), r, prio)
       IN /\ SetSink(s)
          /\ last' = Did("write", written + 1, prio, Len(s.reqs) - Len(reqs))
    /\ written' = written + 1
    /\ UNCHANGED <<cvars, pvars, dvars, impl, retries, retryConfigured>>

\* A pending flush timeout fires: the one _queueWait refers to, or one whose
\* handle was overwritten.
BufTimerFire(handle) ==
    /\ impl = "buffered"
    /\ IF handle THEN queueWait ELSE armed > (IF queueWait THEN 1 ELSE 0)
    /\ LET t == [Sink EXCEPT !.armed = @ - 1,
                             !.wait = IF handle THEN FALSE ELSE @]
           s == SendEntries(t)
       IN /\ SetSink(s)
          /\ last' = Did("timer", 0, FALSE, Len(s.reqs) - Len(reqs))
    /\ UNCHANGED <<cvars, pvars, dvars, impl, written, retries, retryConfigured>>

\* faulty variant: the retry library with the dispatch sink's default, whatever
\* is configured
GetRetryOperationRetryLib(err, attempts) ==
    OperationRetry(err, attempts, DefaultBufferRetries)

\* _getRetryOperation: the retry library when retries > 0, else an operation
\* whose retry() is always false
GetRetryOperationRetry(err, attempts) ==
    IF retries > 0 THEN OperationRetry(err, attempts, retries) ELSE FALSE

\* _emitError(records, err, attempts) as _putRecords calls it, with
\* requestContent: one 'error' event, err.records = requestContent
EmitError(o) ==
    [NoFin EXCEPT !.batch = o.batch, !.attempts = o.attempts,
                  !.errors = o.errors + 1,
                  !.errRecords = [kind |-> "request", Records |-> o.batch],
                  !.errAttempts = o.attempts,
                  !.recordEvents = o.recordEvents]

\* the errorRecord events of one response: one per entry with an ErrorCode,
\* recordResult.Record = requestContent.Records[index]
\* faulty variant: always the first record of the request
RecordAtFirst(batch, index) == batch[1]
RecordAt(batch, index) == batch[index]

RecordEvents(batch, result) ==
    LET F[i \in 0..Len(result)] ==
          IF i = 0 THEN << >>
          ELSE IF result[i] # "ok"
               THEN Append(F[i - 1], [ErrorCode |-> result[i],
                                      Record |-> RecordAt(batch, i)])
               ELSE F[i - 1]
    IN F[Len(result)]

FailedRecordCount(result) == Cardinality({i \in 1..Len(result) : result[i] # "ok"})

\* faulty variant: the events of the failed records are held back
BufResultCallbackSilent(o, result) ==
    [NoFin EXCEPT !.batch = o.batch, !.attempts = o.attempts, !.errors = o.errors,
                  !.result = result, !.recordEvents = o.recordEvents]

\* the callback of kinesis.putRecords without err: the operation is over
BufResultCallback(o, result) ==
    [NoFin EXCEPT !.batch = o.batch, !.attempts = o.attempts, !.errors = o.errors,
                  !.result = result,
                  !.recordEvents = IF FailedRecordCount(result) > 0
                                   THEN o.recordEvents \o RecordEvents(o.batch, result)
                                   ELSE o.recordEvents]

\* kinesis.putRecords fails as a whole: the callback re-arms the timer, throws
\* err and the catch asks operation.retry(err)
BufError(i) ==
    /\ impl = "buffered"
    /\ i \in 1..Len(reqs)
    /\ reqs[i].phase = "inflight"
    /\ LET s == QueueSendEntries(Sink)
       IN IF GetRetryOperationRetry(TRUE, reqs[i].attempts)
          THEN /\ SetSink([s EXCEPT !.reqs[i].phase = "backoff"])
               /\ last' = Did("response", 0, FALSE, 0)
          ELSE /\ SetSink([s EXCEPT !.reqs = Remove(@, i)])
               /\ last' = [Did("response", 0, FALSE, 0) EXCEPT !.fin = EmitError(reqs[i])]
    /\ UNCHANGED <<cvars, pvars, dvars, impl, written, retries, retryConfigured>>

\* kinesis.putRecords answers with one entry per record
BufResult(i) ==
    /\ impl = "buffered"
    /\ i \in 1..Len(reqs)
    /\ reqs[i].phase = "inflight"
    /\ \E result \in [1..Len(reqs[i].batch) -> Codes] :
         /\ SetSink([QueueSendEntries(Sink) EXCEPT !.reqs = Remove(@, i)])
         /\ last' = [Did("response", 0, FALSE, 0) EXCEPT
                       !.fin = BufResultCallback(reqs[i], result)]
    /\ UNCHANGED <<cvars, pvars, dvars, impl, written, retries, retryConfigured>>

\* the retry library's delay is over: the next attempt calls kinesis.putRecords
BufRetryFire(i) ==
    /\ impl = "buffered"
    /\ i \in 1..Len(reqs)
    /\ reqs[i].phase = "backoff"
    /\ reqs' = [reqs EXCEPT ![i] = [@ EXCEPT !.phase = "inflight", !.attempts = @ + 1]]
    /\ last' = Did("retry", 0, FALSE, 0)
    /\ UNCHANGED <<cvars, pvars, dvars, impl, written, retries, retryConfigured, queue,
                   batch_size, queueWait, armed, submitted>>

\* the constructor arms the first flush timeout
InitBuffered ==
    /\ impl = "buffered"
    /\ written = 0
    /\ retryConfigured \in BOOLEAN
    /\ retries \in (IF retryConfigured THEN 0..MaxRetries
                    ELSE {DefaultRetryConfigurationRetries})
    /\ last = NoLast
    /\ submitted = {}
    /\ recordsQueue = << >>
    /\ timer = -1
    /\ bufferLength = BufLength
    /\ ops = << >>
    /\ queue = << >>
    /\ batch_size = 0
    /\ queueWait = TRUE
    /\ armed = 1
    /\ reqs = << >>
    /\ streamName = TRUE
    /\ writeOps = << >>
    /\ NoPool

NextBuffered ==
    \/ \E size \in Sizes, p \in BOOLEAN : BufWrite(size, p)
    \/ \E h \in BOOLEAN : BufTimerFire(h)
    \/ \E i \in 1..MaxWrites : BufError(i)
    \/ \E i \in 1..MaxWrites : BufResult(i)
    \/ \E i \in 1..MaxWrites : BufRetryFire(i)

SpecBuffered == InitBuffered /\ [][NextBuffered]_vars

\* either sink
Init == InitDispatch \/ InitBuffered
Next == NextDispatch \/ NextBuffered
Spec == Init /\ [][Next]_vars

\* several sinks in one process: the batching side of this sink while other
\* sinks are constructed
NextShared ==
    \/ \E p \in BOOLEAN : Write(p)
    \/ TimerElapse
    \/ Flush
    \/ \E n \in 1..MaxOtherLength : NewSink(n)

SpecShared == InitDispatch /\ [][NextShared]_vars

\* the dispatch sink when every pending timer eventually fires
FairDispatch == SpecDispatch /\ WF_vars(TimerElapse)

\* ---- buffered sink: stop
\* stop(): clearTimeout(this._queueWait); this._queue = []
BufStop ==
    /\ impl = "buffered"
    /\ SetSink([ClearTimeout(Sink) EXCEPT !.q = << >>])
    /\ last' = Did("stop", 0, FALSE, 0)
    /\ UNCHANGED <<cvars, pvars, dvars, impl, written, retries, retryConfigured>>

\* the buffered sink with an owner that may stop it
NextStop ==
    \/ NextBuffered
    \/ BufStop

SpecStop == InitBuffered /\ [][NextStop]_vars

\* ---- buffered sink: configuration errors
\* _write without a stream name: done gets the error before anything else is
\* looked at
BufWriteNoName ==
    /\ impl = "buffered"
    /\ ~streamName
    /\ written < MaxWrites
    /\ written' = written + 1
    /\ last' = [Did("writeNoName", written + 1, FALSE, 0) EXCEPT
                  !.fin = [NoFin EXCEPT !.attempts = 1, !.cb = "err"]]
    /\ UNCHANGED <<cvars, pvars, dvars, bvars, impl, retries, retryConfigured,
                   submitted>>

\* One attempt of _write in which the partitionKey function throws (in
\* _mapEntry, before the byte counter and the queue are touched): the catch
\* asks operation.retry(err), and when that is false calls _emitError and done.
WriteThrows(op, id) ==
    IF GetRetryOperationRetry(TRUE, op.attempts)
    THEN /\ writeOps' = Append(writeOps, op)
         /\ last' = Did("writeThrows", id, FALSE, 0)
    ELSE /\ writeOps' = writeOps
         /\ last' = [Did("writeThrows", id, FALSE, 0) EXCEPT
                       !.fin = [NoFin EXCEPT !.attempts = op.attempts,
                                             !.errors = 1,
                                             !.errAttempts = op.attempts,
                                             !.cb = "err"]]

\* _write of a chunk for which the partitionKey function throws
BufWriteThrows ==
    /\ impl = "buffered"
    /\ streamName
    /\ written < MaxWrites
    /\ written' = written + 1
    /\ WriteThrows([id |-> written + 1, attempts |-> 1], written + 1)
    /\ UNCHANGED <<pvars, dvars, bvars, impl, retries, retryConfigured, submitted,
                   streamName>>

\* the retry library's delay is over: the next attempt of that _write
BufWriteRetry(i) ==
    /\ impl = "buffered"
    /\ i \in 1..Len(writeOps)
    /\ LET op == [writeOps[i] EXCEPT !.attempts = @ + 1]
       IN IF GetRetryOperationRetry(TRUE, op.attempts)
          THEN /\ writeOps' = [writeOps EXCEPT ![i] = op]
               /\ last' = Did("writeThrows", op.id, FALSE, 0)
          ELSE /\ writeOps' = Remove(writeOps, i)
               /\ last' = [Did("writeThrows", op.id, FALSE, 0) EXCEPT
                             !.fin = [NoFin EXCEPT !.attempts = op.attempts,
                                                   !.errors = 1,
                                                   !.errAttempts = op.attempts,
                                                   !.cb = "err"]]
    /\ UNCHANGED <<pvars, dvars, bvars, impl, written, retries, retryConfigured,
                   submitted, streamName>>

\* a buffered sink constructed with or without a stream name
InitConfig ==
    /\ impl = "buffered"
    /\ written = 0
    /\ retryConfigured \in BOOLEAN
    /\ retries \in (IF retryConfigured THEN 0..MaxRetries
                    ELSE {DefaultRetryConfigurationRetries})
    /\ last = NoLast
    /\ submitted = {}
    /\ recordsQueue = << >>
    /\ timer = -1
    /\ bufferLength = BufLength
    /\ ops = << >>
    /\ queue = << >>
    /\ batch_size = 0
    /\ queueWait = TRUE
    /\ armed = 1
    /\ reqs = << >>
    /\ streamName \in BOOLEAN
    /\ writeOps = << >>
    /\ NoPool

\* the writing side of the buffered sink, configuration errors included (the
\* endpoint's answers are left out)
NextConfig ==
    \/ \E size \in Sizes, p \in BOOLEAN : BufWrite(size, p)
    \/ \E h \in BOOLEAN : BufTimerFire(h)
    \/ BufWriteNoName
    \/ BufWriteThrows
    \/ \E i \in 1..MaxWrites : BufWriteRetry(i)

SpecConfig == InitConfig /\ [][NextConfig]_vars

\* ---- the same sink with buffer: false
\* _write, no buffer: the record goes to kinesis.putRecord at once
DirectWrite(size) ==
    /\ impl = "unbuffered"
    /\ streamName
    /\ written < MaxWrites
    /\ written' = written + 1
    /\ reqs' = Append(reqs, NewReq(<<[id |-> written + 1, size |-> size]>>))
    /\ submitted' = submitted \cup {written + 1}
    /\ last' = Did("write", written + 1, FALSE, 1)
    /\ UNCHANGED <<cvars, pvars, dvars, impl, retries, retryConfigured, queue,
                   batch_size, queueWait, armed>>

\* The callback _write gives kinesis.putRecord: it tags err, if there is one,
\* with the stream name and the record, and then throws err, whatever it is.
\* The client calls back after _write has returned: nothing catches what is
\* thrown, and done is not called.
PutRecordCallback(o, err) ==
    [NoFin EXCEPT !.batch = o.batch, !.attempts = o.attempts,
                  !.errRecords = IF err THEN [kind |-> "list", Records |-> o.batch]
                                 ELSE @,
                  !.cb = "thrown"]

\* kinesis.putRecord answers call i
DirectResponse(i, err) ==
    /\ impl = "unbuffered"
    /\ i \in 1..Len(reqs)
    /\ reqs' = Remove(reqs, i)
    /\ last' = [Did("response", 0, FALSE, 0) EXCEPT !.fin = PutRecordCallback(reqs[i], err)]
    /\ UNCHANGED <<cvars, pvars, dvars, impl, written, retries, retryConfigured,
                   queue, batch_size, queueWait, armed, submitted>>

\* the constructor with buffer: false: no queue, no flush timeout
InitUnbuffered ==
    /\ impl = "unbuffered"
    /\ written = 0
    /\ retryConfigured \in BOOLEAN
    /\ retries \in (IF retryConfigured THEN 0..MaxRetries
                    ELSE {DefaultRetryConfigurationRetries})
    /\ last = NoLast
    /\ submitted = {}
    /\ recordsQueue = << >>
    /\ timer = -1
    /\ bufferLength = BufLength
    /\ ops = << >>
    /\ queue = << >>
    /\ batch_size = 0
    /\ queueWait = FALSE
    /\ armed = 0
    /\ reqs = << >>
    /\ streamName = TRUE
    /\ writeOps = << >>
    /\ NoPool

NextUnbuffered ==
    \/ \E size \in Sizes : DirectWrite(size)
    \/ \E i \in 1..MaxWrites, e \in BOOLEAN : DirectResponse(i, e)

SpecUnbuffered == InitUnbuffered /\ [][NextUnbuffered]_vars

\* ------------------------------------- older buffered sink: _retryValidRecords
\* An error message is modelled by the numbers N of its occurrences of
\* 'records.N.member.data', in message order (none when it has no occurrence
\* or is not a string).
Messages ==
    UNION {[1..n -> 1..MaxResolverBatch] : n \in 0..MaxMessageIndexes}

\* getRecordIndexesFromError: parseInt(match[1], 10) - 1 for every match
GetRecordIndexesFromError(message) ==
    [i \in 1..Len(message) |-> message[i] - 1]

\* array[index] of a JavaScript array (0-based); undefined outside of it
Undefined == [id |-> 0]
At(array, index) ==
    IF index \in 0..(Len(array) - 1) THEN array[index + 1] ELSE Undefined

\* _.pullAt(array, indexes): the value it returns, one element per index given,
\* in the order given ...
PullAtRemoved(array, indexes) ==
    [i \in 1..Len(indexes) |-> At(array, indexes[i])]

\* ... and what it leaves in the array: the elements at the other positions
PullAtRest(array, indexes) ==
    LET Named == {indexes[i] : i \in 1..Len(indexes)}
        F[i \in 0..Len(array)] ==
          IF i = 0 THEN << >>
          ELSE IF (i - 1) \in Named THEN F[i - 1] ELSE Append(F[i - 1], array[i])
    IN F[Len(array)]

\* requestContent.Records after _.pullAt in _retryValidRecords
ValidRecords(array, indexes) == PullAtRest(array, indexes)

\* failedRecords of _retryValidRecords: every record by default, the records
\* _.pullAt returns when the message names indexes
FailedRecords(array, indexes) ==
    IF Len(indexes) > 0 THEN PullAtRemoved(array, indexes) ELSE array

\* A pending call of _putRecords: the records of the request, and how many
\* resubmissions lie between the original batch and this call.
NewCall(records, bonus) == [batch |-> records, bonus |-> bonus]

\* _retryValidRecords(requestContent, err): what the handler leaves behind
RetryValidRecords(o, message) ==
    LET indexes == GetRecordIndexesFromError(message)
    IN [batch |-> o.batch, bonus |-> o.bonus, message |-> message,
        indexes |-> indexes,
        failed |-> FailedRecords(o.batch, indexes),
        resubmitted |-> IF Len(indexes) > 0
                        THEN <<ValidRecords(o.batch, indexes)>> ELSE << >>,
        errors |-> 1, recordEvents |-> << >>]

\* kinesis.putRecords fails as a whole: the callback arms a flush timeout and
\* calls _retryValidRecords, which resubmits and emits 'error'
ValidError(i, message) ==
    /\ impl = "retryValid"
    /\ i \in 1..Len(reqs)
    /\ Len(message) > 0 => reqs[i].bonus < MaxBonus
    /\ LET r == RetryValidRecords(reqs[i], message)
           s == QueueSendEntries(Sink)
           rest == Remove(reqs, i)
       IN /\ SetSink([s EXCEPT
                 !.reqs = IF Len(r.resubmitted) > 0
                          THEN Append(rest, NewCall(r.resubmitted[1], reqs[i].bonus + 1))
                          ELSE rest,
                 !.sub = IF Len(r.resubmitted) > 0
                         THEN @ \cup Ids(r.resubmitted[1]) ELSE @])
          /\ last' = [Did("error", 0, FALSE, Len(r.resubmitted)) EXCEPT !.fin = r]
    /\ UNCHANGED <<cvars, pvars, dvars, impl, written, retries, retryConfigured>>

\* kinesis.putRecords answers with one entry per record: the callback arms a
\* flush timeout and emits the errorRecord events
ValidResult(i) ==
    /\ impl = "retryValid"
    /\ i \in 1..Len(reqs)
    /\ \E result \in [1..Len(reqs[i].batch) -> Codes] :
         /\ SetSink([QueueSendEntries(Sink) EXCEPT !.reqs = Remove(@, i)])
         /\ last' = [Did("response", 0, FALSE, 0) EXCEPT !.fin =
                       [batch |-> reqs[i].batch, bonus |-> reqs[i].bonus,
                        message |-> << >>, indexes |-> << >>, failed |-> << >>,
                        resubmitted |-> << >>, errors |-> 0,
                        recordEvents |-> IF FailedRecordCount(result) > 0
                                         THEN RecordEvents(reqs[i].batch, result)
                                         ELSE << >>]]
    /\ UNCHANGED <<cvars, pvars, dvars, impl, written, retries, retryConfigured>>

\* _sendEntries has just handed a batch of n records to _putRecords (the write
\* that filled the queue cleared the flush timeout)
InitRetryValid ==
    /\ impl = "retryValid"
    /\ \E n \in 1..MaxResolverBatch :
         /\ written = n
         /\ reqs = <<NewCall([k \in 1..n |-> [id |-> k]], 0)>>
         /\ submitted = 1..n
    /\ retryConfigured = FALSE
    /\ retries = 0
    /\ last = NoLast
    /\ recordsQueue = << >>
    /\ timer = -1
    /\ bufferLength = BufLength
    /\ ops = << >>
    /\ queue = << >>
    /\ batch_size = 0
    /\ queueWait = FALSE
    /\ armed = 0
    /\ streamName = TRUE
    /\ writeOps = << >>
    /\ NoPool

NextRetryValid ==
    \/ \E m \in Messages : ValidError(1, m)
    \/ ValidResult(1)

SpecRetryValid == InitRetryValid /\ [][NextRetryValid]_vars

\* --------------------------------------------------------------------- pool
\* The streams of a pool are writable streams: what the pool sees of them is
\* the chunks it writes to them and their 'error' events. A chunk is written
\* as it is ("chunk"); a stream may report it as the record it made of it
\* ("record", the chunk being its Data).
Chunk(id) == [id |-> id, form |-> "chunk"]
Record(c) == [id |-> c.id, form |-> "record"]

\* what a pool handler leaves in last: its name, the stream it is about, the
\* flags or err.records it was given, what retrySendingRecords wrote and to
\* which stream (targets: the stream of each write; failedAt: the write during
\* which the stream written to emitted 'error', 0 if none), the 'error' and
\* 'poolFailure' events the pool emitted, and whether every stream was marked
\* failing when the handler started
PoolDid(op, stream, given, rewritten, to, errors, poolFailures) ==
    [op |-> op, stream |-> stream, given |-> given, rewritten |-> rewritten,
     to |-> to, errors |-> errors, poolFailures |-> poolFailures,
     before |-> \A i \in DOMAIN failing : failing[i],
     targets |-> [j \in 1..Len(rewritten) |-> to], failedAt |-> 0]

\* faulty variant: the first stream, whatever is flagged
FirstStream(flags) == 1

\* _.find(this.streams, stream => stream.primary), and the first stream when
\* none is found
FindPrimary(flags) ==
    IF \E i \in 1..Len(flags) : flags[i]
    THEN CHOOSE i \in 1..Len(flags) :
           flags[i] /\ \A j \in 1..(i - 1) : ~flags[j]
    ELSE 1

\* _.union(this.recordsToRetry, records): the values of both, each once, in
\* order of first occurrence
Union(a, b) ==
    LET F[i \in 0..Len(b)] ==
          IF i = 0 THEN a
          ELSE IF \E j \in 1..Len(F[i - 1]) : F[i - 1][j] = b[i]
               THEN F[i - 1] ELSE Append(F[i - 1], b[i])
    IN F[Len(b)]

\* err of a stream's 'error' event: no records field, an array of records, or
\* one record that is not in an array (object)
NoRecords == [has |-> FALSE, isArray |-> FALSE, records |-> << >>, object |-> Chunk(0)]
\* Array.isArray(err.records) ? err.records : [err.records]
AsArray(err) == IF err.isArray THEN err.records ELSE <<err.object>>

\* the errors stream i can emit: without records, or with the first k chunks
\* it was given and has not answered, as chunks or as records
Errs(i) ==
    {NoRecords}
    \cup {[has |-> TRUE, isArray |-> TRUE, object |-> Chunk(0),
           records |-> SubSeq(sinkWrites[i], 1, k)] : k \in 1..Len(sinkWrites[i])}
    \cup {[has |-> TRUE, isArray |-> TRUE, object |-> Chunk(0),
           records |-> [j \in 1..k |-> Record(sinkWrites[i][j])]] :
             k \in 1..Len(sinkWrites[i])}
    \cup {[has |-> TRUE, isArray |-> FALSE, object |-> Record(sinkWrites[i][k]),
           records |-> << >>] : k \in 1..Min(1, Len(sinkWrites[i]))}
Carried(err) == IF err.has THEN Len(AsArray(err)) ELSE 0

\* records.Data ? records.Data : records
Unwrap(r) == IF r.form = "record" THEN Chunk(r.id) ELSE r

\* faulty variant: the buffered records are left where they are
RetryNothing(cur, fl, rtr, sw) ==
    [recordsToRetry |-> rtr, sinkWrites |-> sw, rewritten |-> << >>, to |-> 0]

\* retrySendingRecords: while there are records and the current stream is not
\* failing, shift one and write it to the current stream
RetrySendingRecords(cur, fl, rtr, sw) ==
    IF fl[cur] \/ Len(rtr) = 0
    THEN [recordsToRetry |-> rtr, sinkWrites |-> sw, rewritten |-> << >>, to |-> 0]
    ELSE LET w == [j \in 1..Len(rtr) |-> Unwrap(rtr[j])]
         IN [recordsToRetry |-> << >>,
             sinkWrites |-> [sw EXCEPT ![cur] = @ \o w],
             rewritten |-> w, to |-> cur]

\* faulty variant: with every stream failing the primary becomes current
SelectPrimaryWhenNone(fl, prim, cur) ==
    IF ~fl[prim] THEN prim
    ELSE IF \E i \in 1..Len(fl) : ~fl[i]
         THEN CHOOSE i \in 1..Len(fl) : ~fl[i] /\ \A j \in 1..(i - 1) : fl[j]
         ELSE prim

\* faulty variant: the current stream stays when the primary is failing
StayOnCurrent(fl, prim, cur) == cur

\* the stream 'error' handler's choice of currentStream: the primary unless it
\* is failing, else the first stream that is not failing, if there is one
SelectCurrent(fl, prim, cur) ==
    IF ~fl[prim] THEN prim
    ELSE IF \E i \in 1..Len(fl) : ~fl[i]
         THEN CHOOSE i \in 1..Len(fl) : ~fl[i] /\ \A j \in 1..(i - 1) : fl[j]
         ELSE cur

\* faulty variant: the pool never finds every stream failing
NothingIsFailing(fl) == FALSE

\* the pool's own 'error' listener: _.every(streams, s => s.failing === true)
EverythingIsFailing(fl) == \A i \in 1..Len(fl) : fl[i]

\* faulty variant: every stream error is passed on
EmitAlways(fl, cur) == TRUE

\* the stream 'error' handler emits 'error' when the stream it ends up with is
\* failing
EmitsError(fl, cur) == fl[cur]

\* KinesisStreamPool.prototype._write
PoolWrite ==
    /\ impl = "pool"
    /\ written < MaxPoolWrites
    /\ written' = written + 1
    /\ sinkWrites' = [sinkWrites EXCEPT ![currentStream] = Append(@, Chunk(written + 1))]
    /\ last' = PoolDid("write", currentStream, << >>, << >>, 0, 0, 0)
    /\ UNCHANGED <<cvars, dvars, bvars, impl, retries, retryConfigured, submitted,
                   flagged, primaryStream, currentStream, failing, recordsToRetry>>

\* stream i emits 'error': the handler the pool bound to it
SinkError(i, err) ==
    /\ impl = "pool"
    /\ i \in 1..Len(failing)
    /\ err \in Errs(i)
    /\ LET rtr == IF err.has THEN Union(recordsToRetry, AsArray(err))
                  ELSE recordsToRetry
           fl  == [failing EXCEPT ![i] = TRUE]
           cur == SelectCurrent(fl, primaryStream, currentStream)
           sw  == [sinkWrites EXCEPT ![i] = SubSeq(@, Carried(err) + 1, Len(@))]
           r   == RetrySendingRecords(cur, fl, rtr, sw)
       IN /\ failing' = fl
          /\ currentStream' = cur
          /\ IF EmitsError(fl, cur)
             THEN /\ recordsToRetry' = rtr
                  /\ sinkWrites' = sw
                  /\ last' = PoolDid("error", i, err, << >>, 0, 1,
                                     IF EverythingIsFailing(fl) THEN 1 ELSE 0)
             ELSE /\ recordsToRetry' = r.recordsToRetry
                  /\ sinkWrites' = r.sinkWrites
                  /\ last' = PoolDid("error", i, err, r.rewritten, r.to, 0, 0)
    /\ UNCHANGED <<cvars, dvars, bvars, impl, written, retries, retryConfigured, submitted,
                   flagged, primaryStream>>

\* stream i is done with the first chunk it was given
SinkOk(i) ==
    /\ impl = "pool"
    /\ i \in 1..Len(sinkWrites)
    /\ Len(sinkWrites[i]) > 0
    /\ sinkWrites' = [sinkWrites EXCEPT ![i] = Tail(@)]
    /\ last' = PoolDid("ok", i, <<Head(sinkWrites[i])>>, << >>, 0, 0, 0)
    /\ UNCHANGED <<cvars, dvars, bvars, impl, written, retries, retryConfigured, submitted,
                   flagged, primaryStream, currentStream, failing, recordsToRetry>>

\* faulty variant: only the primary stream's flag is reset
ResetPrimary(fl, prim) == [fl EXCEPT ![prim] = FALSE]

\* the setInterval callback resets the primary's flag and every other one
ResetStreams(fl, prim) == [i \in 1..Len(fl) |-> FALSE]

\* faulty variant: the tick leaves the current stream
RecoverNoSwitch(prim, cur) == cur

\* the setInterval callback's currentStream
RecoverCurrent(prim, cur) == prim

\* faulty variant: the callback goes on when any stream is failing
AnyFailing(fl, prim) == \E i \in 1..Len(fl) : fl[i]

\* the setInterval callback returns at once unless primaryStream.failing
PrimaryFailing(fl, prim) == fl[prim]

\* the setInterval callback (every retryPrimaryInterval)
RecoveryTick ==
    /\ impl = "pool"
    /\ IF ~PrimaryFailing(failing, primaryStream)
       THEN /\ last' = PoolDid("tick", 0, << >>, << >>, 0, 0, 0)
            /\ UNCHANGED <<failing, currentStream, recordsToRetry, sinkWrites>>
       ELSE LET fl  == ResetStreams(failing, primaryStream)
                cur == RecoverCurrent(primaryStream, currentStream)
                r   == RetrySendingRecords(cur, fl, recordsToRetry, sinkWrites)
            IN /\ failing' = fl
               /\ currentStream' = cur
               /\ recordsToRetry' = r.recordsToRetry
               /\ sinkWrites' = r.sinkWrites
               /\ last' = PoolDid("recovery", cur, << >>, r.rewritten, r.to, 0, 0)
    /\ UNCHANGED <<cvars, dvars, bvars, impl, written, retries, retryConfigured, submitted,
                   flagged, primaryStream>>

\* new KinesisStreamPool({streams}): the streams as the caller flagged them
InitPoolOf(most) ==
    /\ impl = "pool"
    /\ \E n \in 1..most : \E flags \in [1..n -> BOOLEAN] :
         /\ primaryStream = FindPrimary(flags)
         /\ flagged = [flags EXCEPT ![primaryStream] = TRUE]
         /\ failing = [i \in 1..n |-> FALSE]
         /\ sinkWrites = [i \in 1..n |-> << >>]
         /\ last = PoolDid("construct", 0, flags, << >>, 0, 0, 0)
    /\ currentStream = primaryStream
    /\ recordsToRetry = << >>
    /\ written = 0
    /\ retryConfigured = FALSE
    /\ retries = 0
    /\ submitted = {}
    /\ recordsQueue = << >>
    /\ timer = -1
    /\ bufferLength = BufLength
    /\ ops = << >>
    /\ queue = << >>
    /\ batch_size = 0
    /\ queueWait = FALSE
    /\ armed = 0
    /\ reqs = << >>
    /\ streamName = TRUE
    /\ writeOps = << >>

InitPool == InitPoolOf(MaxStreams)

NextPool ==
    \/ PoolWrite
    \/ \E i \in DOMAIN sinkWrites : \E err \in Errs(i) : SinkError(i, err)
    \/ \E i \in DOMAIN sinkWrites : SinkOk(i)
    \/ RecoveryTick

SpecPool == InitPool /\ [][NextPool]_vars

\* The interval timer keeps firing, and a stream that holds a chunk answers:
\* it is done with it unless it reports it as failed.
FairPool ==
    /\ InitPoolOf(MaxFairStreams)
    /\ [][NextPool]_vars
    /\ WF_vars(RecoveryTick)
    /\ \A i \in 1..MaxFairStreams : WF_vars(SinkOk(i))

\* ------------------------------------------- pool: errors during a drain
\* A stream may emit 'error' inside write: the buffered sink's _write catches
\* what partitionKey or JSON.parse throws and, with no retry left, calls
\* _emitError(err.records, ...) before it returns, err.records being
\* undefined and the chunk not queued. The pool's handler then runs inside
\* the while loop of retrySendingRecords. Drain is that loop, one iteration
\* per step, where write number k (k = 0: none) fails in this way.
DrainStart(cur, fl, rtr, sw) ==
    [cur |-> cur, fl |-> fl, rtr |-> rtr, sw |-> sw, rewritten |-> << >>,
     to |-> << >>, errors |-> 0, poolFailures |-> 0, failedAt |-> 0]

\* faulty variant: the loop goes on until the buffer is empty
DrainEndsEmpty(d) == Len(d.rtr) = 0

\* the negated condition of the while loop
DrainEnds(d) == d.fl[d.cur] \/ Len(d.rtr) = 0

\* the stream 'error' handler for an err without records, called from the
\* write of the loop; its own call of retrySendingRecords runs the same loop
\* on the same buffer, after which the outer loop finds nothing left to do
DrainError(d, prim) ==
    LET fl  == [d.fl EXCEPT ![d.cur] = TRUE]
        cur == SelectCurrent(fl, prim, d.cur)
    IN [d EXCEPT !.fl = fl, !.cur = cur, !.failedAt = Len(d.rewritten),
                 !.errors = @ + (IF EmitsError(fl, cur) THEN 1 ELSE 0),
                 !.poolFailures = @ + (IF EmitsError(fl, cur) /\ EverythingIsFailing(fl)
                                       THEN 1 ELSE 0)]

RECURSIVE Drain(_, _, _)
Drain(d, prim, k) ==
    IF DrainEnds(d) THEN d
    ELSE LET c == Unwrap(Head(d.rtr))
             w == [d EXCEPT !.rtr = Tail(@), !.rewritten = Append(@, c),
                            !.to = Append(@, d.cur)]
         IN IF k = 1
            THEN Drain(DrainError(w, prim), prim, 0)
            ELSE Drain([w EXCEPT !.sw[d.cur] = Append(@, c)], prim,
                       IF k = 0 THEN 0 ELSE k - 1)

\* stream i emits 'error' and a write of the handler's drain fails at once
SinkErrorDrain(i, err, k) ==
    /\ impl = "pool"
    /\ i \in 1..Len(failing)
    /\ err \in Errs(i)
    /\ LET rtr == IF err.has THEN Union(recordsToRetry, AsArray(err))
                  ELSE recordsToRetry
           fl  == [failing EXCEPT ![i] = TRUE]
           cur == SelectCurrent(fl, primaryStream, currentStream)
           sw  == [sinkWrites EXCEPT ![i] = SubSeq(@, Carried(err) + 1, Len(@))]
           d   == Drain(DrainStart(cur, fl, rtr, sw), primaryStream, k)
       IN /\ ~EmitsError(fl, cur)
          /\ d.failedAt > 0
          /\ failing' = d.fl
          /\ currentStream' = d.cur
          /\ recordsToRetry' = d.rtr
          /\ sinkWrites' = d.sw
          /\ last' = [PoolDid("error", i, err, d.rewritten, 0, d.errors, d.poolFailures)
                        EXCEPT !.targets = d.to, !.failedAt = d.failedAt]
    /\ UNCHANGED <<cvars, dvars, bvars, impl, written, retries, retryConfigured, submitted,
                   flagged, primaryStream>>

\* the setInterval callback finds the primary failing and a write of its
\* drain fails at once
RecoveryTickDrain(k) ==
    /\ impl = "pool"
    /\ PrimaryFailing(failing, primaryStream)
    /\ LET fl  == ResetStreams(failing, primaryStream)
           cur == RecoverCurrent(primaryStream, currentStream)
           d   == Drain(DrainStart(cur, fl, recordsToRetry, sinkWrites), primaryStream, k)
       IN /\ d.failedAt > 0
          /\ failing' = d.fl
          /\ currentStream' = d.cur
          /\ recordsToRetry' = d.rtr
          /\ sinkWrites' = d.sw
          /\ last' = [PoolDid("recovery", cur, << >>, d.rewritten, 0, d.errors,
                               d.poolFailures)
                        EXCEPT !.targets = d.to, !.failedAt = d.failedAt]
    /\ UNCHANGED <<cvars, dvars, bvars, impl, written, retries, retryConfigured, submitted,
                   flagged, primaryStream>>

NextPoolDrain ==
    \/ NextPool
    \/ \E i \in DOMAIN sinkWrites : \E err \in Errs(i) : \E k \in 1..MaxPoolWrites :
         SinkErrorDrain(i, err, k)
    \/ \E k \in 1..MaxPoolWrites : RecoveryTickDrain(k)

SpecPoolDrain == InitPool /\ [][NextPoolDrain]_vars

\* ------------------------------- pool: streams that are buffered sinks
\* requestContent of _putRecords: {StreamName, Records}, the records being
\* {Data, PartitionKey} with the chunk as Data
RequestContent(chunks) ==
    [id |-> 0, form |-> "request",
     Records |-> [j \in 1..Len(chunks) |-> Record(chunks[j])]]

\* err of the 'error' event the buffered sink emits for a batch that failed:
\* _emitError(requestContent, err, currentAttempt) sets err.records =
\* requestContent
EmitErrorErr(chunks) ==
    [has |-> TRUE, isArray |-> FALSE, records |-> << >>,
     object |-> RequestContent(chunks)]

\* stream i is a buffered sink whose submission of the first k chunks it
\* holds has failed for good: the handler the pool bound to its 'error'
SinkEmitError(i, k) ==
    /\ impl = "pool"
    /\ i \in 1..Len(failing)
    /\ k \in 1..Len(sinkWrites[i])
    /\ \A j \in 1..k : sinkWrites[i][j].form = "chunk"
    /\ LET err == EmitErrorErr(SubSeq(sinkWrites[i], 1, k))
           rtr == Union(recordsToRetry, AsArray(err))
           fl  == [failing EXCEPT ![i] = TRUE]
           cur == SelectCurrent(fl, primaryStream, currentStream)
           sw  == [sinkWrites EXCEPT ![i] = SubSeq(@, k + 1, Len(@))]
           r   == RetrySendingRecords(cur, fl, rtr, sw)
       IN /\ failing' = fl
          /\ currentStream' = cur
          /\ IF EmitsError(fl, cur)
             THEN /\ recordsToRetry' = rtr
                  /\ sinkWrites' = sw
                  /\ last' = PoolDid("emitError", i, err, << >>, 0, 1,
                                     IF EverythingIsFailing(fl) THEN 1 ELSE 0)
             ELSE /\ recordsToRetry' = r.recordsToRetry
                  /\ sinkWrites' = r.sinkWrites
                  /\ last' = PoolDid("emitError", i, err, r.rewritten, r.to, 0, 0)
    /\ UNCHANGED <<cvars, dvars, bvars, impl, written, retries, retryConfigured, submitted,
                   flagged, primaryStream>>

NextPoolEmit ==
    \/ NextPool
    \/ \E i \in DOMAIN sinkWrites : \E k \in 1..MaxPoolWrites : SinkEmitError(i, k)

SpecPoolEmit == InitPool /\ [][NextPoolEmit]_vars

\* --------------------------------------- pool: a chunk written once more
\* The pool is given a value it was given before: the same object again, or a
\* primitive value equal to an earlier one. _.union compares by SameValueZero,
\* for which these are one value.
PoolWriteAgain(id) ==
    /\ impl = "pool"
    /\ written < MaxPoolWrites
    /\ id \in 1..written
    /\ written' = written + 1
    /\ sinkWrites' = [sinkWrites EXCEPT ![currentStream] = Append(@, Chunk(id))]
    /\ last' = PoolDid("write", currentStream, << >>, << >>, 0, 0, 0)
    /\ UNCHANGED <<cvars, dvars, bvars, impl, retries, retryConfigured, submitted,
                   flagged, primaryStream, currentStream, failing, recordsToRetry>>

NextPoolSame ==
    \/ NextPool
    \/ \E id \in 1..MaxPoolWrites : PoolWriteAgain(id)

SpecPoolSame == InitPool /\ [][NextPoolSame]_vars

\* Stream i, a buffered sink, gets an answer of kinesis.putRecords for the first
\* k chunks it was given that reports record j as failed: the sink emits
\* 'errorRecord' for it, an event the pool has bound no handler to.
SinkErrorRecord(i, k, j) ==
    /\ impl = "pool"
    /\ i \in 1..Len(sinkWrites)
    /\ k \in 1..Len(sinkWrites[i])
    /\ j \in 1..k
    /\ sinkWrites' = [sinkWrites EXCEPT ![i] = SubSeq(@, k + 1, Len(@))]
    /\ last' = PoolDid("errorRecord", i,
                       [has |-> TRUE, isArray |-> TRUE, object |-> Chunk(0),
                        records |-> <<Record(sinkWrites[i][j])>>],
                       << >>, 0, 0, 0)
    /\ UNCHANGED <<cvars, dvars, bvars, impl, written, retries, retryConfigured, submitted,
                   flagged, primaryStream, currentStream, failing, recordsToRetry>>

\* the pool with streams whose answers may report single records as failed
NextPoolOutcomes ==
    \/ NextPool
    \/ \E i \in DOMAIN sinkWrites : \E k, j \in 1..MaxPoolWrites : SinkErrorRecord(i, k, j)

SpecPoolOutcomes == InitPool /\ [][NextPoolOutcomes]_vars

\* ---- answers that report failed records
\* putRecords answers attempt o.attempts of operation i of the dispatch sink
\* without err, some entries of the answer carrying an ErrorCode: the callback
\* of dispatch takes err only, and the operation is over as after any success
ResponsePartial(i) ==
    /\ impl = "dispatch"
    /\ i \in 1..Len(ops)
    /\ ops[i].phase = "inflight"
    /\ \E result \in [1..Len(ops[i].batch) -> Codes] :
         /\ FailedRecordCount(result) > 0
         /\ last' = [Did("response", 0, FALSE, 0) EXCEPT
                       !.fin = [Finish(ops[i], FALSE) EXCEPT !.result = result]]
    /\ ops' = Remove(ops, i)
    /\ UNCHANGED <<cvars, pvars, bvars, impl, written, retries, retryConfigured,
                   bufferLength, recordsQueue, timer, submitted>>

\* either sink, answers with failed records included
NextPartial ==
    \/ Next
    \/ \E i \in 1..MaxWrites : ResponsePartial(i)

SpecPartial == Init /\ [][NextPartial]_vars

\* ------------------------------------------------------------------ claims
NewestBatch(o) == o[Len(o)].batch

\* C1: every batch the dispatch sink hands to a submission holds at most
\* buffer.length records (buffer.length as it is when flush runs), also while
\* other sinks are constructed.
C1_BatchLength ==
    \A i \in 1..Len(ops) : Len(ops[i].batch) <= ops[i].limit

\* a flush that cut the queue: a full batch went out and records stayed behind
C1_Witness ==
    /\ Len(ops) > 0
    /\ Len(NewestBatch(ops)) = ops[Len(ops)].limit
    /\ Len(recordsQueue) > 0

\* C2 (as claimed): every batch the buffered sink submits has a cumulative size
\* of at most maxBatchSize, every single record being smaller than that.
C2_BatchBytes ==
    \A i \in 1..Len(reqs) : SumSizes(reqs[i].batch) <= MaxBatchSize

C4_PriorityFirst ==
    [][(written' = written + 1 /\ last'.prio) =>
         /\ impl = "dispatch" =>
              /\ Len(ops') = Len(ops) + 1
              /\ NewestBatch(ops') = <<[id |-> written']>> \o Strip(recordsQueue)
         /\ impl = "buffered" =>
              /\ Len(reqs') > Len(reqs)
              /\ NewestBatch(reqs')[1].id = written'
              /\ Len(NewestBatch(reqs')) = Len(queue) + 1]_vars

\* C4 (amended): a priority write starts a submission inside the write; in the
\* dispatch sink the record is first in the batch, followed by the records
\* queued before; in the buffered sink it is last in the batch, after the
\* records queued before (which the size check may have sent on their own).
C4_PriorityFlush ==
    [][(written' = written + 1 /\ last'.prio) =>
         /\ impl = "dispatch" =>
              /\ Len(ops') = Len(ops) + 1
              /\ NewestBatch(ops') = <<[id |-> written']>> \o Strip(recordsQueue)
              /\ recordsQueue' = << >>
         /\ impl = "buffered" =>
              /\ Len(reqs') > Len(reqs)
              /\ LET b == NewestBatch(reqs')
                 IN /\ b[Len(b)].id = written'
                    /\ \/ SubSeq(b, 1, Len(b) - 1) = queue
                       \/ Len(b) = 1 /\ Len(reqs') = Len(reqs) + 2
              /\ queue' = << >>]_vars

\* a priority write found records queued and went out in front of them
C4_Witness ==
    /\ impl = "dispatch"
    /\ last.op = "write" /\ last.prio /\ last.nsub = 1
    /\ Len(ops) > 0
    /\ Len(NewestBatch(ops)) >= 2
    /\ NewestBatch(ops)[1].id = last.id

C6_FlushedWithinTimeout ==
    \A i \in 1..Len(recordsQueue) : recordsQueue[i].age <= BufferTimeout

\* C7: a batch is attempted at most retries + 1 times; no 'error' event is
\* emitted for it while attempts are left; when the last attempt fails, exactly
\* one 'error' event is emitted and the dispatch callback gets the error.
C7_RetryBound ==
    /\ \A i \in 1..Len(ops) : ops[i].errors = 0 /\ ops[i].attempts <= retries + 1
    /\ (impl = "dispatch" /\ last.op = "response" /\ last.fin.cb = "err") =>
         /\ last.fin.attempts = retries + 1
         /\ last.fin.errors = 1
    /\ (impl = "dispatch" /\ last.op = "response" /\ last.fin.cb = "ok") =>
         last.fin.errors = 0

\* two retries configured by default: the third failure is the one surfaced
C7_Witness ==
    /\ impl = "dispatch"
    /\ retries = 2
    /\ last.op = "response" /\ last.fin.cb = "err"
    /\ last.fin.attempts = 3 /\ last.fin.errors = 1

Surfaced == last.op = "response" /\ last.fin.errors >= 1

\* C8 (as claimed): without a configured retry policy a failing submission is
\* attempted once, with no retry delay, and surfaced after that attempt.
C8_DefaultSingleAttempt ==
    ~retryConfigured =>
      /\ \A i \in 1..Len(ops) : ops[i].attempts = 1 /\ ops[i].phase # "backoff"
      /\ \A i \in 1..Len(reqs) : reqs[i].attempts = 1 /\ reqs[i].phase # "backoff"
      /\ Surfaced => last.fin.attempts = 1

\* C8 (amended): that is the buffered sink (retryConfiguration.retries defaults
\* to 0); the dispatch sink defaults to buffer.retry.retries = 2 and surfaces
\* the failure after the third attempt.
C8_DefaultAttempts ==
    ~retryConfigured =>
      /\ \A i \in 1..Len(reqs) : reqs[i].attempts = 1 /\ reqs[i].phase # "backoff"
      /\ (impl = "buffered" /\ Surfaced) => last.fin.attempts = 1
      /\ \A i \in 1..Len(ops) : ops[i].attempts <= DefaultBufferRetries + 1
      /\ (impl = "dispatch" /\ Surfaced) => last.fin.attempts = DefaultBufferRetries + 1

\* the buffered sink, nothing configured: the first failure is surfaced
C8_Witness ==
    /\ impl = "buffered"
    /\ ~retryConfigured
    /\ Surfaced
    /\ last.fin.attempts = 1

\* C9 (as claimed): when the submission call fails and no retry is left, one
\* 'error' event is emitted whose records field is the list of the batch's
\* records, in batch order.
C9_ErrorRecordsList ==
    /\ \A i \in 1..Len(reqs) : reqs[i].errors = 0
    /\ Surfaced =>
         /\ last.fin.errors = 1
         /\ last.fin.errRecords = [kind |-> "list", Records |-> last.fin.batch]

\* C10: a response with failed records gives one errorRecord event per entry
\* with an ErrorCode, in batch order, each with that entry's ErrorCode and the
\* record at the same index of the batch; entries without ErrorCode give none.
FailedIndexes(result) == {i \in 1..Len(result) : result[i] # "ok"}
NthFailed(result, k) ==
    CHOOSE i \in FailedIndexes(result) :
      Cardinality({j \in FailedIndexes(result) : j <= i}) = k

C10_ErrorRecordEvents ==
    /\ \A i \in 1..Len(reqs) : reqs[i].recordEvents = << >>
    /\ (impl = "buffered" /\ last.op = "response") =>
         LET res == last.fin.result
             ev  == last.fin.recordEvents
         IN /\ Len(ev) = Cardinality(FailedIndexes(res))
            /\ \A k \in 1..Len(ev) :
                 ev[k] = [ErrorCode |-> res[NthFailed(res, k)],
                          Record |-> last.fin.batch[NthFailed(res, k)]]

\* a response that accepts the first record and rejects the second
C10_Witness ==
    /\ impl = "buffered"
    /\ last.op = "response"
    /\ Len(last.fin.result) = 2
    /\ last.fin.result[1] = "ok"
    /\ Len(last.fin.recordEvents) = 1
    /\ last.fin.recordEvents[1].Record = last.fin.batch[2]

\* the records of the batch that _retryValidRecords treats as not failed: the
\* remainder it resubmits
NotFailed(fin) == IF Len(fin.resubmitted) > 0 THEN fin.resubmitted[1] ELSE << >>

\* C11 (as claimed): for every batch and every error handled by
\* _retryValidRecords, err.records and the resubmitted remainder partition the
\* batch (every record in exactly one of them, the lengths adding up to the
\* batch's), and err.records is in batch order.
C11_Partition ==
    (impl = "retryValid" /\ last.op = "error") =>
      LET failed == last.fin.failed
          rest   == NotFailed(last.fin)
      IN /\ Len(failed) + Len(rest) = Len(last.fin.batch)
         /\ Ids(failed) \cup Ids(rest) = Ids(last.fin.batch)
         /\ Ids(failed) \cap Ids(rest) = {}
         /\ \A i, j \in 1..Len(failed) : i < j => failed[i].id < failed[j].id

\* C12 (as claimed): when the message of a whole-call error names record
\* indexes, err.records holds the records at those positions (index k of the
\* message is position k - 1 of the batch), the other records are resubmitted
\* in one further call, and an original batch gets one such call at most.
C12_SingleBonus ==
    /\ (impl = "retryValid" /\ last.op = "error" /\ Len(last.fin.message) > 0) =>
         /\ Ids(last.fin.failed) =
              {At(last.fin.batch, last.fin.message[i] - 1).id :
                 i \in 1..Len(last.fin.message)}
         /\ last.nsub = 1
    /\ impl = "retryValid" => \A i \in 1..Len(reqs) : reqs[i].bonus <= 1

\* ---- pool
AllFailing == \A i \in DOMAIN failing : failing[i]
Unwrapped(records) == [j \in 1..Len(records) |-> Chunk(records[j].id)]
Elems(seq) == {seq[j] : j \in 1..Len(seq)}
EndsWith(seq, tail) ==
    /\ Len(seq) >= Len(tail)
    /\ SubSeq(seq, Len(seq) - Len(tail) + 1, Len(seq)) = tail

\* C13: after construction the primary stream is the stream flagged primary, or
\* the first stream when none is flagged; the current stream is the primary
\* stream and recordsToRetry is empty.
C13_Construction ==
    (impl = "pool" /\ last.op = "construct") =>
      /\ (\E i \in DOMAIN last.given : last.given[i]) => last.given[primaryStream]
      /\ (\A i \in DOMAIN last.given : ~last.given[i]) => primaryStream = 1
      /\ currentStream = primaryStream
      /\ recordsToRetry = << >>

\* a pool constructed with its second stream flagged
C13_Witness ==
    /\ impl = "pool" /\ last.op = "construct"
    /\ Len(last.given) >= 2
    /\ ~last.given[1] /\ last.given[2]
    /\ primaryStream = 2 /\ currentStream = 2

\* C14: when the current stream emits 'error' with records and another stream
\* is not failing, the handler marks the current stream failing, makes a stream
\* that is not failing the current one and writes those records' chunks to it;
\* a write to the pool goes to the current stream.
C14_Failover ==
    [][impl = "pool" =>
        /\ (last'.op = "error" /\ last'.stream = currentStream /\ last'.given.has
              /\ \E j \in DOMAIN failing : j # currentStream /\ ~failing[j]) =>
             /\ failing'[currentStream]
             /\ currentStream' # currentStream
             /\ ~failing'[currentStream']
             /\ last'.to = currentStream'
             /\ Elems(Unwrapped(AsArray(last'.given))) \subseteq Elems(last'.rewritten)
             /\ EndsWith(sinkWrites'[currentStream'], last'.rewritten)
        /\ last'.op = "write" =>
             /\ currentStream' = currentStream
             /\ sinkWrites'[currentStream] =
                  Append(sinkWrites[currentStream], Chunk(written'))]_vars

\* the primary failed with a record, which went to the stream that took over
C14_Witness ==
    /\ impl = "pool" /\ last.op = "error"
    /\ last.stream = primaryStream
    /\ last.given.has
    /\ currentStream # primaryStream
    /\ ~failing[currentStream]
    /\ last.to = currentStream
    /\ Len(last.rewritten) >= 1
    /\ EndsWith(sinkWrites[currentStream], last.rewritten)

\* C15: between handlers the current stream is not marked failing unless every
\* stream is.
C15_CurrentHealthy ==
    impl = "pool" => (failing[currentStream] => AllFailing)

\* every stream but one is failing, and that one is the current stream
C15_Witness ==
    /\ impl = "pool" /\ last.op = "error"
    /\ Len(failing) >= 2
    /\ Cardinality({i \in DOMAIN failing : failing[i]}) = Len(failing) - 1
    /\ ~failing[currentStream]

\* C16: between handlers, when the primary stream is not marked failing the
\* current stream is the primary stream.
C16_PrimaryPreferred ==
    impl = "pool" => (~failing[primaryStream] => currentStream = primaryStream)

\* the tick brought the pool back from a secondary to its primary, a stream
\* other than the first
C16_Witness ==
    /\ impl = "pool" /\ last.op = "recovery"
    /\ primaryStream # 1
    /\ currentStream = primaryStream
    /\ ~last.before

C19_Recovery ==
    [][(impl = "pool" /\ last'.op \in {"tick", "recovery"}) =>
         IF failing[primaryStream]
         THEN /\ last'.op = "recovery"
              /\ \A i \in DOMAIN failing' : ~failing'[i]
              /\ currentStream' = primaryStream
              /\ recordsToRetry' = << >>
              /\ sinkWrites' = [sinkWrites EXCEPT
                                  ![primaryStream] = @ \o Unwrapped(recordsToRetry)]
         ELSE /\ last'.op = "tick"
              /\ UNCHANGED pvars]_vars

\* every stream of several was failing: the tick cleared them all and wrote
\* the buffered record to the primary
C19_Witness ==
    /\ impl = "pool" /\ last.op = "recovery"
    /\ Len(failing) >= 2
    /\ last.before
    /\ \A i \in DOMAIN failing : ~failing[i]
    /\ Len(last.rewritten) >= 1
    /\ last.to = primaryStream

\* C20 (as claimed): a write to a buffered sink without a stream name, or for
\* which the partitionKey function throws, gives the error to the write callback
\* in its one and only attempt, whatever the retry policy, and leaves the queue,
\* the byte counter and the flush timeout as they were.
C20_ConfigErrorOnce ==
    [][(impl = "buffered" /\ last'.op \in {"writeNoName", "writeThrows"}) =>
         /\ UNCHANGED <<queue, batch_size, queueWait, armed, reqs, submitted>>
         /\ last'.fin.cb = "err"
         /\ last'.fin.attempts = 1
         /\ writeOps' = << >>]_vars

\* C21 (as claimed): stop() leaves the buffered sink with an empty queue and no
\* pending flush timeout; it submits nothing, and the submissions under way
\* stay as they are, to be answered later.
C21_StopClears ==
    [][(impl = "buffered" /\ last'.op = "stop") =>
         /\ queue' = << >>
         /\ armed' = 0
         /\ reqs' = reqs
         /\ submitted' = submitted]_vars

\* C25 (as claimed): a sink has at most one flush timeout pending in every
\* reachable state.
C25_OneTimer ==
    impl = "buffered" => armed <= 1

\* C22 (as claimed): with buffer: false every write submits its record at once
\* and its callback is called once, with the error (which carries the record)
\* when the submission fails and without error when it succeeds; no 'error'
\* event is emitted.
C22_DirectCallback ==
    /\ (impl = "unbuffered" /\ last.op = "write") =>
         /\ last.nsub = 1
         /\ NewestBatch(reqs) = <<[id |-> last.id, size |-> NewestBatch(reqs)[1].size]>>
    /\ (impl = "unbuffered" /\ last.op = "response") =>
         /\ last.fin.errors = 0
         /\ last.fin.cb = (IF last.fin.errRecords.kind = "list" THEN "err" ELSE "ok")

\* C23 (as claimed): when a stream of a pool gets an outcome with failed
\* records, be it a failed call or an answer that reports some records as
\* failed, the pool's handler runs: the stream is marked failing and the failed
\* records are in recordsToRetry or written to the current stream.
C23_PoolNotified ==
    (impl = "pool" /\ last.op \in {"error", "errorRecord"} /\ last.given.has) =>
      /\ failing[last.stream]
      /\ Elems(Unwrapped(AsArray(last.given)))
           \subseteq (Elems(last.rewritten) \cup Elems(Unwrapped(recordsToRetry)))

BufFlushed == impl = "buffered" /\ (last'.op = "timer" \/ (last'.op = "write" /\ last'.nsub >= 1))
DispatchFlushed ==
    impl = "dispatch" /\ (last'.op \in {"timer", "flush"} \/ (last'.op = "write" /\ last'.nsub >= 1))

\* C26 (as claimed): when a flush returns, be it started by the timer or by a
\* write, with records to send or none, a flush timer is armed.
C26_FlushRearms ==
    [][/\ BufFlushed => (queueWait' /\ armed' >= 1)
       /\ DispatchFlushed => timer' >= 0]_vars

\* C26 (amended): in the buffered sink a flush by the timer that finds the
\* queue empty arms a new timeout at once; a flush that submits records arms
\* none (a write cancels the pending one first), the next timeout being armed
\* by the callback of the submission, without a cancel. In the dispatch sink no
\* flush arms a timer: a write that flushes cancels it, the timer's own flush
\* leaves none, and only a write that does not flush arms one.
C26_FlushTimer ==
    [][/\ (impl = "buffered" /\ last'.op = "timer") =>
            IF queue = << >>
            THEN queueWait' /\ armed' = armed /\ reqs' = reqs
            ELSE /\ Len(reqs') = Len(reqs) + 1
                 /\ armed' = armed - 1
                 /\ queueWait' => queueWait
       /\ (impl = "buffered" /\ last'.op = "write" /\ last'.nsub >= 1) =>
            /\ ~queueWait'
            /\ armed' = armed - (IF queueWait THEN 1 ELSE 0)
       /\ (impl = "buffered" /\ last'.op = "response") =>
            /\ queueWait'
            /\ armed' = armed + 1
       /\ (impl = "dispatch" /\ last'.op = "timer") => timer' = -1
       /\ (impl = "dispatch" /\ last'.op = "flush") => timer' = timer
       /\ (impl = "dispatch" /\ last'.op = "write") =>
            timer' = (IF last'.nsub >= 1 THEN -1 ELSE BufferTimeout)]_vars

\* the timer of the buffered sink has sent the queue: no timeout is pending
\* until the submission answers
C26_Witness ==
    /\ impl = "buffered"
    /\ last.op = "timer" /\ last.nsub = 1
    /\ ~queueWait
    /\ armed = 0
    /\ Len(reqs) = 1

\* the last operation started by the step, of either sink
Started == IF impl = "dispatch" THEN ops'[Len(ops')] ELSE reqs'[Len(reqs')]

DrainBuffer ==
    IF last'.op = "error" /\ last'.given.has
    THEN Union(recordsToRetry, AsArray(last'.given))
    ELSE recordsToRetry
DrainFlags ==
    IF last'.op = "error" THEN [failing EXCEPT ![last'.stream] = TRUE]
    ELSE [i \in DOMAIN failing |-> FALSE]

\* C29: the drain of the stream 'error' handler and of the recovery tick
\* writes the head of the retry buffer, one write per record and in the
\* buffer's order, each to a stream that is not marked failing and that is the
\* current one at that moment; it writes nothing more to a stream once that
\* stream is marked failing, what it has not written stays in the buffer in
\* its order, and it ends with an empty buffer unless the current stream is
\* failing.
C29_Drain ==
    [][last'.op \in {"error", "recovery"} =>
         LET n == Len(last'.rewritten)
             t == last'.targets
             f == last'.failedAt
         IN /\ n <= Len(DrainBuffer)
            /\ Len(t) = n
            /\ f <= n
            /\ last'.rewritten = Unwrapped(SubSeq(DrainBuffer, 1, n))
            /\ recordsToRetry' = SubSeq(DrainBuffer, n + 1, Len(DrainBuffer))
            /\ \A j \in 1..n : ~DrainFlags[t[j]]
            /\ \A j \in 1..n : (f = 0 \/ j <= f) => t[j] = t[1]
            /\ \A j \in 1..n : (f > 0 /\ j > f) =>
                 (t[j] = currentStream' /\ t[j] # t[f] /\ ~failing'[t[j]])
            /\ f > 0 => failing'[t[f]]
            /\ (f > 0 /\ failing'[currentStream']) => n = f
            /\ (f = 0 /\ n > 0) => t[n] = currentStream'
            /\ failing'[currentStream'] \/ recordsToRetry' = << >>]_vars

\* a drain has stopped after its first write because that write made the
\* last healthy stream fail: the rest of the buffer is still there
C29_Witness ==
    /\ impl = "pool"
    /\ last.op \in {"error", "recovery"}
    /\ Len(last.rewritten) = 1
    /\ last.failedAt = 1
    /\ failing[last.targets[1]]
    /\ failing[currentStream]
    /\ recordsToRetry # << >>

\* the streams that are not marked failing after the step, in list order
HealthyAfter == {j \in DOMAIN failing' : ~failing'[j]}

\* the streams whose 'error' was handled in the step: the one the handler was
\* called for and, if a write of its drain failed at once, the one written to
Signalled ==
    {last'.stream} \cup (IF last'.failedAt > 0 THEN {last'.targets[last'.failedAt]} ELSE {})

C30_TickFrame ==
    [][/\ (last'.op \in {"tick", "recovery"} /\ ~failing[primaryStream]) =>
            /\ last'.op = "tick"
            /\ UNCHANGED <<currentStream, failing, recordsToRetry, sinkWrites,
                           primaryStream>>
            /\ last'.rewritten = << >>
            /\ last'.errors = 0
       /\ last'.op = "recovery" => failing[primaryStream]
       /\ \A j \in DOMAIN failing :
            /\ (~failing[j] /\ failing'[j]) =>
                 \/ last'.op = "error" /\ j \in Signalled
                 \/ /\ last'.op = "recovery"
                    /\ last'.failedAt > 0
                    /\ j = last'.targets[last'.failedAt]
            /\ (failing[j] /\ ~failing'[j]) =>
                 (last'.op = "recovery" /\ failing[primaryStream])]_vars

\* the timer has fired with a secondary marked failing and the primary not:
\* the secondary is still marked
C30_Witness ==
    /\ impl = "pool"
    /\ last.op = "tick"
    /\ ~failing[primaryStream]
    /\ \E j \in DOMAIN failing : j # primaryStream /\ failing[j]
    /\ currentStream = primaryStream

\* C31 (as claimed): the chain of resubmissions of one original batch ends
\* whatever the endpoint answers: every resubmission is shorter than the call
\* it follows, so a call that lies k resubmissions after an original batch of
\* n records holds n - k records at most and no chain is longer than n.
C31_ChainBounded ==
    impl = "retryValid" =>
      /\ \A i \in 1..Len(reqs) : reqs[i].bonus + Len(reqs[i].batch) <= written
      /\ (last.op = "error" /\ last.nsub = 1) =>
           Len(NotFailed(last.fin)) < Len(last.fin.batch)

\* the pending operations of the sink, of either generation
Pending == IF impl = "dispatch" THEN ops ELSE reqs
PendingAfter == IF impl = "dispatch" THEN ops' ELSE reqs'

\* C32: a flush starts a submission whatever is pending (running submissions
\* or retry delays); an answer and the end of a retry delay change the one
\* operation they belong to and no other, whichever of the pending operations
\* that is; an operation that fails for good has made retries + 1 attempts.
C32_IndependentBatches ==
    [][(impl \in {"dispatch", "buffered"}) =>
         /\ last'.op = "response" =>
              \E i \in 1..Len(Pending) :
                /\ Pending[i].phase = "inflight"
                /\ \/ PendingAfter = Remove(Pending, i)
                   \/ PendingAfter = [Pending EXCEPT ![i].phase = "backoff"]
         /\ last'.op = "retry" =>
              \E i \in 1..Len(Pending) :
                /\ Pending[i].phase = "backoff"
                /\ PendingAfter = [Pending EXCEPT ![i].phase = "inflight",
                                                  ![i].attempts = @ + 1]
         /\ (last'.op = "response" /\ last'.fin.errors > 0) =>
              last'.fin.attempts = retries + 1
         /\ (impl = "dispatch" /\ last'.op = "write"
               /\ Len(recordsQueue) + 1 >= bufferLength) =>
              Len(ops') = Len(ops) + 1
         /\ (impl = "dispatch" /\ last'.op \in {"timer", "flush"}
               /\ recordsQueue # << >>) =>
              Len(ops') = Len(ops) + 1
         /\ (impl = "buffered" /\ last'.op = "timer" /\ queue # << >>) =>
              Len(reqs') = Len(reqs) + 1
         /\ (impl = "buffered" /\ last'.op = "write"
               /\ Len(queue) + 1 >= BufLength) =>
              Len(reqs') > Len(reqs)]_vars

\* a batch has used up its attempts and failed while an older batch of the
\* same sink is still in its first attempt
C32_Witness ==
    /\ impl = "dispatch"
    /\ retries >= 1
    /\ last.op = "response"
    /\ last.fin.cb = "err"
    /\ last.fin.attempts = retries + 1
    /\ \E i \in 1..Len(ops) :
         /\ ops[i].attempts = 1
         /\ \A a \in Ids(ops[i].batch), b \in Ids(last.fin.batch) : a < b

\* C33 (as claimed): when a buffered sink reports a failed batch through
\* _emitError, the drain makes one write per record of the batch, and what it
\* writes is the chunk that record was made of, never the request or a list.
C33_DrainWritesPayloads ==
    (impl = "pool" /\ last.op = "emitError" /\ ~failing[currentStream]) =>
      /\ Len(last.rewritten) = Len(last.given.object.Records)
      /\ \A j \in 1..Len(last.rewritten) : last.rewritten[j].form = "chunk"

\* C34 (as claimed): a failure signal adds to the retry buffer as many
\* records as it carries, equal ones included, and a record leaves the buffer
\* only when the drain writes it to the current stream: after a handler with
\* a drain, what is left in the buffer and what the drain wrote add up to
\* what was there and what came in; no other step changes the buffer.
C34_NoRecordDropped ==
    [][impl = "pool" =>
         /\ last'.op = "error" =>
              Len(recordsToRetry') + Len(last'.rewritten) =
                Len(recordsToRetry) + Carried(last'.given)
         /\ last'.op = "recovery" =>
              Len(recordsToRetry') + Len(last'.rewritten) = Len(recordsToRetry)
         /\ last'.op \notin {"error", "recovery"} => recordsToRetry' = recordsToRetry]_vars

\* stream g of the pool never emits 'error'
NeverFails(g) == [](g \in DOMAIN failing /\ ~(last.op = "error" /\ last.stream = g))
\* an 'error' event has carried the chunk written as number c
CarriedByError(c) ==
    /\ last.op = "error"
    /\ last.given.has
    /\ \E j \in 1..Len(AsArray(last.given)) : AsArray(last.given)[j].id = c
\* a stream is done with the chunk written as number c
Delivered(c) == last.op = "ok" /\ last.given = <<Chunk(c)>>

\* C35 (as claimed): if one stream of the pool never fails, the interval timer keeps
\* firing and the streams answer what they are given, every record carried by
\* an 'error' event is in the end written to a stream that is done with it.
C35_EventuallyDelivered ==
    \A g \in 1..MaxFairStreams :
      NeverFails(g) =>
        \A c \in 1..MaxPoolWrites : [](CarriedByError(c) => <>Delivered(c))

\* C36 (as claimed): when a write has returned, the sink's queue holds fewer
\* records than the batch length it is configured with.
C36_QueueBelowLength ==
    last.op = "write" =>
      /\ impl = "dispatch" => Len(recordsQueue) < bufferLength
      /\ impl = "buffered" => Len(queue) < BufLength

C38_IdleAfterStop ==
    [][(impl = "buffered" /\ last.op = "stop" /\ last'.op # "write") =>
         /\ armed' <= armed
         /\ queueWait' => queueWait
         /\ Len(reqs') <= Len(reqs)
         /\ submitted' = submitted]_vars

\* C39 (as claimed): the construction of another sink with its own buffer
\* options leaves this sink's configuration, its queue and its submissions as
\* they are.
C39_IndependentSinks ==
    [][(impl = "dispatch" /\ last'.op = "newsink") =>
         /\ bufferLength' = bufferLength
         /\ retries' = retries
         /\ recordsQueue' = recordsQueue
         /\ ops' = ops]_vars

\* C40 (as claimed): in the buffered sink _batch_size is the sum of the sizes
\* of the records in the queue, after every write and after every flush.
C40_BatchSizeIsQueueSize ==
    (impl = "buffered" /\ last.op \in {"write", "timer"}) =>
      batch_size = SumSizes(queue)

====
